---- MODULE Spec2Model ----
\* Model of the rule aggregation layer (pkg/rules/rules.go): GRPCClient.Rules,
\* the rulesServer sink, filterRules/matches, dedupGroups and dedupRules; and
\* of the query admission code: queryRejectionMiddleware.Do and
\* QueryAttributeMatcher.Match of the packages tripperware and queryfrontend.
EXTENDS Integers, Sequences, FiniteSets, Bags, TLC

VARIABLES
    pc,         \* position of the GRPCClient.Rules call: "start", "proxy", "done"
    req,        \* the RulesRequest: [MatcherString : sequence of selector strings]
    rr,         \* the GRPCClient: [replicaLabels : set of label names]
    compiled,   \* the matcherSets GRPCClient.Rules has compiled from the request
    srv,        \* the rulesServer: [groups, warnings]
    mu,         \* rulesServer.mu: "free" or the producer holding it
    prod,       \* per producer: position inside rulesServer.Send and its message
    sendFailed, \* some Send returned an error to the collaborator
    ctx,        \* the call's context: "active" or "canceled"
    proxyResult, \* what rr.proxy.Rules returned, "pending" until it has
    sent,       \* history: the bag of messages Send has accepted
    arrived,    \* history: the accepted messages in the order they took the mutex
    ret,        \* what GRPCClient.Rules returned
    fn          \* a direct application of one of the pure functions

vars == <<pc, req, rr, compiled, srv, mu, prod, sendFailed, ctx, proxyResult, sent,
          arrived, ret, fn>>

-----------------------------------------------------------------------------
\* Bounds of the model.

\* filterRules inputs: groups per call, rules per group, matcher sets per call.
FilterMaxGroups == 2
FilterMaxRules == 2
FilterMaxSets == 2
\* dedupGroups inputs.
MergeMaxGroups == 3
MergeMaxRules == 2
\* dedupRules inputs, and how often dedupRules is applied to its own result.
DedupMaxRules == 3
DedupCalls == 2
\* filterRules on one rule: labels per rule, matcher sets per call.
FilterMaxLabels == 2
OneRuleMaxSets == 2
\* The Rules call: selectors per request, producers' deliveries per call.
MaxSelectors == 1
MaxDeliveries == 3
\* Query admission: characters per query, blocked-query matchers per
\* configuration, requests per middleware, patterns per matcher.
QueryMaxLen == 2
MaxBlocked == 2
DoCalls == 2
MaxPatterns == 2

SeqsUpTo(S, n) == UNION {[1..k -> S] : k \in 0..n}

-----------------------------------------------------------------------------
\* Data model.

Label(n, v) == [Name |-> n, Value |-> v]

\* Label names in lexicographic order (Go compares the names with <).
LabelNameOrder == <<"a", "b", "replica">>

NameIndex(n) == CHOOSE i \in 1..Len(LabelNameOrder) : LabelNameOrder[i] = n

NameLess(n1, n2) == NameIndex(n1) < NameIndex(n2)

\* A rule: its variant, its name, its labels and the evaluation state that the
\* variant's Compare looks at.
Rule(t, n, l, s) == [type |-> t, name |-> n, labels |-> l, state |-> s]

RuleGroup(n, rs) == [Name |-> n, Rules |-> rs]

-----------------------------------------------------------------------------
\* text/template as matches uses it.  A label value parses to a list of nodes,
\* or fails to parse.

TemplateParseError(v) == v = "{{"

TemplateNodes(v) ==
    CASE v = "" -> <<>>
      [] v \in {"{{.v}}", "{{.w}}"} -> <<"NodeAction">>
      [] OTHER -> <<"NodeText">>

\* parse.IsEmptyTree: no node, or text nodes holding white space only.
IsEmptyTree(v) == v \in {"", " "}

NoTree == [set |-> FALSE, nodes |-> <<>>]

\* labelTemplate.Parse(v) on the one template that matches creates before its
\* loop.  Parse installs the parsed tree as the template's body, except that a
\* body of white space and comments only "is considered empty and will not
\* replace an existing template's body" (text/template, Template.Parse): then
\* t.Root is still the tree of an earlier label.
TemplateParse(tree, v) ==
    IF tree.set /\ IsEmptyTree(v)
    THEN tree
    ELSE [set |-> TRUE, nodes |-> TemplateNodes(v)]

IsOneTextNode(tree) == Len(tree.nodes) = 1 /\ tree.nodes[1] = "NodeText"

RECURSIVE NonTemplatedFrom(_, _, _)
NonTemplatedFrom(l, i, tree) ==
    IF i > Len(l) THEN <<>>
    ELSE IF TemplateParseError(l[i].Value)
         THEN NonTemplatedFrom(l, i + 1, tree)
         ELSE LET t == TemplateParse(tree, l[i].Value)
              IN  (IF IsOneTextNode(t) THEN <<l[i]>> ELSE <<>>)
                    \o NonTemplatedFrom(l, i + 1, t)

nonTemplatedLabels(l) == NonTemplatedFrom(l, 1, NoTree)

\* labels.Labels.Get: the value of the label of that name, "" when absent.
RECURSIVE LabelsGetFrom(_, _, _)
LabelsGetFrom(l, i, name) ==
    IF i > Len(l) THEN ""
    ELSE IF l[i].Name = name THEN l[i].Value
    ELSE LabelsGetFrom(l, i + 1, name)

LabelsGet(l, name) == LabelsGetFrom(l, 1, name)

\* Anchored regular expressions, for the patterns the selectors below use.
RegexMatch(p, v) ==
    CASE p = ".+" -> v # ""
      [] p = ".*" -> TRUE
      [] OTHER -> v = p

Matcher(t, n, v) == [Type |-> t, Name |-> n, Value |-> v]

MatcherMatches(m, v) ==
    CASE m.Type = "=" -> v = m.Value
      [] m.Type = "!=" -> v # m.Value
      [] m.Type = "=~" -> RegexMatch(m.Value, v)
      [] m.Type = "!~" -> ~RegexMatch(m.Value, v)

matches(matcherSets, l) ==
    IF Len(matcherSets) = 0 THEN TRUE
    ELSE LET nt == nonTemplatedLabels(l)
         IN  \A i \in 1..Len(matcherSets) :
                \A j \in 1..Len(matcherSets[i]) :
                    MatcherMatches(matcherSets[i][j], LabelsGet(nt, matcherSets[i][j].Name))

\* The in-place compaction without the truncation g.Rules = g.Rules[:ruleCount]:
\* the retained rules, then the stale tail of the slice.
filterGroupNotTruncating(g, matcherSets) ==
    LET kept == SelectSeq(g.Rules, LAMBDA r : matches(matcherSets, r.labels))
    IN  RuleGroup(g.Name, kept \o SubSeq(g.Rules, Len(kept) + 1, Len(g.Rules)))

filterGroup(g, matcherSets) ==
    RuleGroup(g.Name, SelectSeq(g.Rules, LAMBDA r : matches(matcherSets, r.labels)))

\* filterRules without its early return on an empty matcherSets.
filterRulesAlwaysFiltering(ruleGroups, matcherSets) ==
    SelectSeq([i \in 1..Len(ruleGroups) |-> filterGroup(ruleGroups[i], matcherSets)],
              LAMBDA g : Len(g.Rules) # 0)

\* filterRules without the check that drops the groups left without rules.
filterRulesKeepingEmptyGroups(ruleGroups, matcherSets) ==
    IF Len(matcherSets) = 0 THEN ruleGroups
    ELSE [i \in 1..Len(ruleGroups) |-> filterGroup(ruleGroups[i], matcherSets)]

filterRules(ruleGroups, matcherSets) ==
    IF Len(matcherSets) = 0 THEN ruleGroups
    ELSE SelectSeq([i \in 1..Len(ruleGroups) |-> filterGroup(ruleGroups[i], matcherSets)],
                   LAMBDA g : Len(g.Rules) # 0)

-----------------------------------------------------------------------------
\* dedupGroups: groups of one name are merged into the first group of that name.

RECURSIVE IndexOfName(_, _, _)
IndexOfName(gs, i, name) ==
    IF i > Len(gs) THEN 0
    ELSE IF gs[i].Name = name THEN i
    ELSE IndexOfName(gs, i + 1, name)

RECURSIVE DedupGroupsLoop(_, _, _)
DedupGroupsLoop(groups, i, uniqueGroups) ==
    IF i > Len(groups) THEN uniqueGroups
    ELSE LET g == groups[i]
             k == IndexOfName(uniqueGroups, 1, g.Name)
         IN  IF k # 0
             THEN DedupGroupsLoop(groups, i + 1,
                    [uniqueGroups EXCEPT ![k].Rules = uniqueGroups[k].Rules \o g.Rules])
             ELSE DedupGroupsLoop(groups, i + 1, Append(uniqueGroups, g))

\* A merge that replaces the rules of the existing group instead of appending.
RECURSIVE DedupGroupsReplacing(_, _, _)
DedupGroupsReplacing(groups, i, uniqueGroups) ==
    IF i > Len(groups) THEN uniqueGroups
    ELSE LET g == groups[i]
             k == IndexOfName(uniqueGroups, 1, g.Name)
         IN  IF k # 0
             THEN DedupGroupsReplacing(groups, i + 1,
                    [uniqueGroups EXCEPT ![k].Rules = g.Rules])
             ELSE DedupGroupsReplacing(groups, i + 1, Append(uniqueGroups, g))

dedupGroupsReplacing(groups) ==
    IF Len(groups) = 0 THEN <<>> ELSE DedupGroupsReplacing(groups, 1, <<>>)

dedupGroups(groups) ==
    IF Len(groups) = 0 THEN <<>> ELSE DedupGroupsLoop(groups, 1, <<>>)

-----------------------------------------------------------------------------
\* dedupRules.

\* A removal that deletes in place while it walks the labels, and so skips the
\* label that follows a removed one.
RECURSIVE RemoveSkippingFrom(_, _, _)
RemoveSkippingFrom(l, i, replicaLabels) ==
    IF i > Len(l) THEN <<>>
    ELSE IF l[i].Name \in replicaLabels
         THEN (IF i + 1 <= Len(l) THEN <<l[i + 1]>> ELSE <<>>)
                \o RemoveSkippingFrom(l, i + 2, replicaLabels)
         ELSE <<l[i]>> \o RemoveSkippingFrom(l, i + 1, replicaLabels)

removeReplicaLabelsSkipping(r, replicaLabels) ==
    [r EXCEPT !.labels = RemoveSkippingFrom(r.labels, 1, replicaLabels)]

removeReplicaLabels(r, replicaLabels) ==
    [r EXCEPT !.labels = SelectSeq(r.labels, LAMBDA l : l.Name \notin replicaLabels)]

\* sort.Slice on the label names (an insertion sort; names are unique in a rule).
RECURSIVE InsertLabel(_, _)
InsertLabel(sorted, l) ==
    IF Len(sorted) = 0 THEN <<l>>
    ELSE IF NameLess(l.Name, Head(sorted).Name) THEN <<l>> \o sorted
    ELSE <<Head(sorted)>> \o InsertLabel(Tail(sorted), l)

RECURSIVE SortLabelsFrom(_, _, _)
SortLabelsFrom(l, i, sorted) ==
    IF i > Len(l) THEN sorted
    ELSE SortLabelsFrom(l, i + 1, InsertLabel(sorted, l[i]))

\* A sort that leaves the labels as they are.
sortLabelsUnsorted(l) == l

sortLabels(l) == SortLabelsFrom(l, 1, <<>>)

normalizeRule(r, replicaLabels) ==
    LET s == removeReplicaLabels(r, replicaLabels)
    IN  [s EXCEPT !.labels = sortLabels(s.labels)]

\* Rule.String(): the canonical identity of a rule.
RuleString(r) == <<r.type, r.name, r.labels>>

\* RecordingRule.Compare / Alert.Compare: 0 when the two rules are equal.
Compare(r1, r2) == IF r1.state = r2.state THEN 0 ELSE 1

NoSeen == [k \in {} |-> 0]

\* The loop over the normalised rules, carrying seenRules and uniqueRules.
RECURSIVE DedupRulesLoopReplacing(_, _, _, _)
\* A loop that records the rule of every iteration, the differing ones too.
DedupRulesLoopReplacing(rules, i, seenRules, uniqueRules) ==
    IF i > Len(rules) THEN [uniqueRules |-> uniqueRules, seenRules |-> seenRules]
    ELSE DedupRulesLoopReplacing(rules, i + 1, (RuleString(rules[i]) :> rules[i]) @@ seenRules,
                                 Append(uniqueRules, rules[i]))

RECURSIVE DedupRulesLoop(_, _, _, _)
DedupRulesLoop(rules, i, seenRules, uniqueRules) ==
    IF i > Len(rules) THEN [uniqueRules |-> uniqueRules, seenRules |-> seenRules]
    ELSE LET r == rules[i]
             k == RuleString(r)
         IN  IF k \in DOMAIN seenRules
             THEN LET existingRule == seenRules[k]
                  IN  IF /\ existingRule.type = r.type
                         /\ Compare(existingRule, r) # 0
                      THEN DedupRulesLoop(rules, i + 1, seenRules, Append(uniqueRules, r))
                      ELSE DedupRulesLoop(rules, i + 1, (k :> r) @@ seenRules,
                                          Append(uniqueRules, r))
             ELSE DedupRulesLoop(rules, i + 1, (k :> r) @@ seenRules,
                                 Append(uniqueRules, r))

dedupRulesWalk(rules, replicaLabels) ==
    DedupRulesLoop([i \in 1..Len(rules) |-> normalizeRule(rules[i], replicaLabels)],
                   1, NoSeen, <<>>)

\* A dedupRules that hands the rules back in reverse order.
dedupRulesReversed(rules, replicaLabels) ==
    LET u == IF Len(rules) = 0 THEN rules
             ELSE dedupRulesWalk(rules, replicaLabels).uniqueRules
    IN  [i \in 1..Len(u) |-> u[Len(u) + 1 - i]]

dedupRules(rules, replicaLabels) ==
    IF Len(rules) = 0 THEN rules ELSE dedupRulesWalk(rules, replicaLabels).uniqueRules

-----------------------------------------------------------------------------
\* Selectors and parser.ParseMetricSelector.

ValidSelectors ==
    {"{a='x'}", "{a!='x'}", "{b=' '}", "{a=~'.+'}", "{a='{{.v}}',b!~'.+'}"}

MalformedSelectors == {"{a="}

Selectors == ValidSelectors \cup MalformedSelectors

\* ParseMetricSelector: the matchers of a selector, or a parse error.
ParseMetricSelector(s) ==
    CASE s = "{a='x'}" -> [err |-> FALSE, matchers |-> <<Matcher("=", "a", "x")>>]
      [] s = "{a!='x'}" -> [err |-> FALSE, matchers |-> <<Matcher("!=", "a", "x")>>]
      [] s = "{b=' '}" -> [err |-> FALSE, matchers |-> <<Matcher("=", "b", " ")>>]
      [] s = "{a=~'.+'}" -> [err |-> FALSE, matchers |-> <<Matcher("=~", "a", ".+")>>]
      [] s = "{a='{{.v}}',b!~'.+'}" ->
            [err |-> FALSE,
             matchers |-> <<Matcher("=", "a", "{{.v}}"), Matcher("!~", "b", ".+")>>]
      [] OTHER -> [err |-> TRUE, matchers |-> <<>>]

MatcherSetUniverse == {ParseMetricSelector(s).matchers : s \in ValidSelectors}

-----------------------------------------------------------------------------
\* GRPCClient.Rules after rr.proxy.Rules has returned proxyErr: the selectors
\* are parsed, then the accumulated groups are filtered, merged and deduplicated.

NoErr == "nil"

NoReturn == [returned |-> FALSE, err |-> NoErr, cause |-> NoErr, hasGroups |-> FALSE,
             groups |-> <<>>, warnings |-> <<>>]

\* return nil, nil, errors.Wrap(cause, e)
ErrorReturn(e, cause) ==
    [returned |-> TRUE, err |-> e, cause |-> cause, hasGroups |-> FALSE,
     groups |-> <<>>, warnings |-> <<>>]

HasMalformed(request) ==
    \E i \in 1..Len(request.MatcherString) :
        ParseMetricSelector(request.MatcherString[i]).err

ParseSelectors(request) ==
    [i \in 1..Len(request.MatcherString) |->
        ParseMetricSelector(request.MatcherString[i]).matchers]

ProcessGroups(groups, matcherSets, replicaLabels) ==
    LET merged == dedupGroups(filterRules(groups, matcherSets))
    IN  [i \in 1..Len(merged) |->
            RuleGroup(merged[i].Name, dedupRules(merged[i].Rules, replicaLabels))]

\* A return on the parse error that hands out the accumulated warnings.
RulesAfterProxyKeepingWarnings(proxyErr, request, server, replicaLabels) ==
    IF proxyErr # NoErr THEN ErrorReturn("proxy Rules", proxyErr)
    ELSE IF HasMalformed(request)
         THEN [ErrorReturn("parser ParseMetricSelector", "parse error") EXCEPT
                    !.warnings = server.warnings]
    ELSE [returned |-> TRUE, err |-> NoErr, cause |-> NoErr, hasGroups |-> TRUE,
          groups |-> ProcessGroups(server.groups, ParseSelectors(request), replicaLabels),
          warnings |-> server.warnings]

\* A return that goes on to the selectors without looking at the collaborator's
\* error.
RulesAfterProxyIgnoringProxyError(proxyErr, request, server, replicaLabels) ==
    IF HasMalformed(request) THEN ErrorReturn("parser ParseMetricSelector", "parse error")
    ELSE [returned |-> TRUE, err |-> NoErr, cause |-> NoErr, hasGroups |-> TRUE,
          groups |-> ProcessGroups(server.groups, ParseSelectors(request), replicaLabels),
          warnings |-> server.warnings]

RulesAfterProxy(proxyErr, request, server, replicaLabels) ==
    IF proxyErr # NoErr THEN ErrorReturn("proxy Rules", proxyErr)
    ELSE IF HasMalformed(request) THEN ErrorReturn("parser ParseMetricSelector", "parse error")
    ELSE [returned |-> TRUE, err |-> NoErr, cause |-> NoErr, hasGroups |-> TRUE,
          groups |-> ProcessGroups(server.groups, ParseSelectors(request), replicaLabels),
          warnings |-> server.warnings]

-----------------------------------------------------------------------------
\* The Rules call: the request, the producers of the fan-out collaborator and
\* the messages they deliver to the rulesServer.

Producers == {"p1", "p2"}

RequestSelectors == {"{a='x'}", "{b=' '}", "{a="}

Requests == {[MatcherString |-> m] : m \in SeqsUpTo(RequestSelectors, MaxSelectors)}

ReplicaLabelSets == {{}, {"replica"}}

AlertUp(replica) ==
    Rule("alert", "Up", <<Label("a", "x"), Label("replica", replica)>>, "firing")

NoGroup == RuleGroup("", <<>>)

WarningMessage(w) == [warning |-> w, hasGroup |-> FALSE, group |-> NoGroup]

GroupMessage(g) == [warning |-> "", hasGroup |-> TRUE, group |-> g]

NilMessage == [warning |-> "", hasGroup |-> FALSE, group |-> NoGroup]

Messages ==
    {WarningMessage("w1"), WarningMessage("w2"), NilMessage,
     GroupMessage(RuleGroup("g1", <<AlertUp("0")>>)),
     GroupMessage(RuleGroup("g1", <<AlertUp("1")>>)),
     GroupMessage(RuleGroup("g2", <<>>))}

Idle == [pc |-> "idle", msg |-> NilMessage, late |-> FALSE, local |-> <<>>]

NoCall == [name |-> "none"]

NotCompiled == [done |-> FALSE, sets |-> <<>>]

InFlight == {p \in Producers : prod[p].pc # "idle"}

Deliveries == Len(srv.groups) + Len(srv.warnings) + Cardinality(InFlight)

\* The fan-out collaborator's result: an error once a Send has failed, else
\* success or a total failure, or the context's error once it is canceled.
ProxyOutcomes(failed, context) ==
    IF failed THEN {"no group"}
    ELSE {NoErr, "unavailable"} \cup
         (IF context = "canceled" THEN {"context canceled"} ELSE {})

\* srv.mu.Lock() goes through when nobody holds the mutex.
CanLockAlways(holder) == TRUE

CanLock(holder) == holder = "free"

Init ==
    /\ pc = "start"
    /\ req \in Requests
    /\ rr \in {[replicaLabels |-> L] : L \in ReplicaLabelSets}
    /\ compiled = NotCompiled
    /\ srv = [groups |-> <<>>, warnings |-> <<>>]
    /\ mu = "free"
    /\ prod = [p \in Producers |-> Idle]
    /\ sendFailed = FALSE
    /\ ctx = "active"
    /\ proxyResult = "pending"
    /\ sent = EmptyBag
    /\ arrived = <<>>
    /\ ret = NoReturn
    /\ fn = NoCall

\* Rules creates the rulesServer and invokes rr.proxy.Rules(req, resp).
RulesCall ==
    /\ pc = "start"
    /\ pc' = "proxy"
    /\ UNCHANGED <<req, rr, compiled, srv, mu, prod, sendFailed, ctx, proxyResult,
                   sent, arrived, ret, fn>>

\* The caller cancels the context while Rules is inside rr.proxy.Rules.
Cancel ==
    /\ pc = "proxy"
    /\ ctx = "active"
    /\ ctx' = "canceled"
    /\ UNCHANGED <<pc, req, rr, compiled, srv, mu, prod, sendFailed, proxyResult,
                   sent, arrived, ret, fn>>

\* rulesServer.Send up to taking the mutex: a warning and a group go on to
\* lock, a message with neither returns the "no group" error.
SendStart(p, m) ==
    /\ pc = "proxy"
    /\ prod[p].pc = "idle"
    /\ Deliveries < MaxDeliveries
    /\ IF m.warning = "" /\ ~m.hasGroup
       THEN /\ sendFailed' = TRUE
            /\ UNCHANGED <<prod, sent>>
       ELSE /\ prod' = [prod EXCEPT ![p] = [pc |-> "lock", msg |-> m,
                                            late |-> ctx = "canceled",
                                            local |-> <<>>]]
            /\ sent' = sent (+) SetToBag({m})
            /\ UNCHANGED sendFailed
    /\ UNCHANGED <<pc, req, rr, compiled, srv, mu, ctx, proxyResult, arrived, ret, fn>>

\* srv.mu.Lock()
SendLock(p) ==
    /\ prod[p].pc = "lock"
    /\ CanLock(mu)
    /\ mu' = p
    /\ prod' = [prod EXCEPT ![p].pc = "locked"]
    /\ arrived' = Append(arrived, [msg |-> prod[p].msg, late |-> prod[p].late])
    /\ UNCHANGED <<pc, req, rr, compiled, srv, sendFailed, ctx, proxyResult, sent,
                   ret, fn>>

\* append(...) reads the slice it extends.
SendRead(p) ==
    /\ prod[p].pc = "locked"
    /\ prod' = [prod EXCEPT ![p].pc = "append",
                            ![p].local = IF prod[p].msg.warning # ""
                                         THEN srv.warnings ELSE srv.groups]
    /\ UNCHANGED <<pc, req, rr, compiled, srv, mu, sendFailed, ctx, proxyResult,
                   sent, arrived, ret, fn>>

\* The extended slice is stored and the deferred srv.mu.Unlock() runs.
SendAppend(p) ==
    /\ prod[p].pc = "append"
    /\ srv' = IF prod[p].msg.warning # ""
              THEN [srv EXCEPT !.warnings = Append(prod[p].local, prod[p].msg.warning)]
              ELSE [srv EXCEPT !.groups = Append(prod[p].local, prod[p].msg.group)]
    /\ mu' = "free"
    /\ prod' = [prod EXCEPT ![p] = Idle]
    /\ UNCHANGED <<pc, req, rr, compiled, sendFailed, ctx, proxyResult, sent,
                   arrived, ret, fn>>

\* rr.proxy.Rules returns and Rules runs to its return statement.
RulesReturn ==
    /\ pc = "proxy"
    /\ InFlight = {}
    /\ \E e \in ProxyOutcomes(sendFailed, ctx) :
        LET r == RulesAfterProxy(e, req, srv, rr.replicaLabels)
        IN  /\ ret' = r
            /\ proxyResult' = e
            /\ compiled' = IF e = NoErr /\ ~HasMalformed(req)
                           THEN [done |-> TRUE, sets |-> ParseSelectors(req)]
                           ELSE compiled
            /\ srv' = IF r.err = NoErr THEN [srv EXCEPT !.groups = r.groups] ELSE srv
    /\ pc' = "done"
    /\ UNCHANGED <<req, rr, mu, prod, sendFailed, ctx, sent, arrived, fn>>

Next ==
    \/ RulesCall
    \/ Cancel
    \/ \E p \in Producers, m \in Messages : SendStart(p, m)
    \/ \E p \in Producers : SendLock(p)
    \/ \E p \in Producers : SendRead(p)
    \/ \E p \in Producers : SendAppend(p)
    \/ RulesReturn

Spec == Init /\ [][Next]_vars

-----------------------------------------------------------------------------
\* The pure functions applied directly to inputs drawn from bounded sets.  The
\* Rules call is not running in these specifications.

NoRulesCall ==
    /\ pc = "none"
    /\ req = [MatcherString |-> <<>>]
    /\ rr = [replicaLabels |-> {}]
    /\ compiled = NotCompiled
    /\ srv = [groups |-> <<>>, warnings |-> <<>>]
    /\ mu = "free"
    /\ prod = [p \in Producers |-> Idle]
    /\ sendFailed = FALSE
    /\ ctx = "active"
    /\ proxyResult = "pending"
    /\ sent = EmptyBag
    /\ arrived = <<>>
    /\ ret = NoReturn

machineVars == <<pc, req, rr, compiled, srv, mu, prod, sendFailed, ctx, proxyResult,
                 sent, arrived, ret>>

GroupNames == {"g1", "g2"}

\* filterRules on whole group lists.
FilterRuleSet ==
    {Rule("alert", "Up", <<Label("a", "x")>>, "firing"),
     Rule("alert", "Up", <<Label("a", "{{.v}}"), Label("b", " ")>>, "firing")}

FilterSelectors == {"{a='x'}", "{a!='x'}", "{b=' '}"}

FilterGroupSet ==
    {RuleGroup(n, rs) : n \in GroupNames, rs \in SeqsUpTo(FilterRuleSet, FilterMaxRules)}

FilterMatcherSets ==
    SeqsUpTo({ParseMetricSelector(s).matchers : s \in FilterSelectors}, FilterMaxSets)

FilterCall(gs, ms) ==
    [name |-> "filterRules", ruleGroups |-> gs, matcherSets |-> ms,
     done |-> FALSE, out |-> <<>>]

InitFilter ==
    /\ NoRulesCall
    /\ \E gs \in SeqsUpTo(FilterGroupSet, FilterMaxGroups), ms \in FilterMatcherSets :
        fn = FilterCall(gs, ms)

ApplyFilterRules ==
    /\ fn.name = "filterRules"
    /\ ~fn.done
    /\ fn' = [fn EXCEPT !.done = TRUE,
                        !.out = filterRules(fn.ruleGroups, fn.matcherSets)]
    /\ UNCHANGED machineVars

SpecFilter == InitFilter /\ [][ApplyFilterRules]_vars

\* filterRules on one rule, over every label list of the bounded label universe.
FilterLabelNames == {"a", "b"}

FilterLabelValues == {"x", " ", "", "{{.v}}", "{{.w}}", "{{"}

FilterLabelUniverse == {Label(n, v) : n \in FilterLabelNames, v \in FilterLabelValues}

UniqueNames(l) == \A i, j \in 1..Len(l) : l[i].Name = l[j].Name => i = j

FilterLabelLists ==
    {l \in SeqsUpTo(FilterLabelUniverse, FilterMaxLabels) : UniqueNames(l)}

OneRuleMatcherSets == SeqsUpTo(MatcherSetUniverse, OneRuleMaxSets)

InitFilterOne ==
    /\ NoRulesCall
    /\ \E l \in FilterLabelLists, ms \in OneRuleMatcherSets :
        fn = FilterCall(<<RuleGroup("g1", <<Rule("alert", "Up", l, "firing")>>)>>, ms)

SpecFilterOne == InitFilterOne /\ [][ApplyFilterRules]_vars

\* dedupGroups.
MergeRuleSet ==
    {Rule("alert", "Up", <<Label("a", "x")>>, "firing"),
     Rule("recording", "job:up", <<Label("a", "x")>>, "ok")}

MergeGroupSet ==
    {RuleGroup(n, rs) : n \in GroupNames, rs \in SeqsUpTo(MergeRuleSet, MergeMaxRules)}

InitDedupGroups ==
    /\ NoRulesCall
    /\ \E gs \in SeqsUpTo(MergeGroupSet, MergeMaxGroups) :
        fn = [name |-> "dedupGroups", groups |-> gs, done |-> FALSE, out |-> <<>>]

ApplyDedupGroups ==
    /\ fn.name = "dedupGroups"
    /\ ~fn.done
    /\ fn' = [fn EXCEPT !.done = TRUE, !.out = dedupGroups(fn.groups)]
    /\ UNCHANGED machineVars

SpecDedupGroups == InitDedupGroups /\ [][ApplyDedupGroups]_vars

\* dedupRules, applied to its input and then to its own result.
DedupLabelLists ==
    {<<Label("a", "x")>>,
     <<Label("a", "x"), Label("replica", "0")>>,
     <<Label("a", "x"), Label("replica", "1")>>,
     <<Label("replica", "1"), Label("b", "y"), Label("a", "x")>>,
     <<Label("a", "x"), Label("b", "y"), Label("replica", "0")>>}

DedupRuleSet ==
    {Rule(t, "Up", l, s) : t \in {"alert", "recording"}, l \in DedupLabelLists,
                           s \in {"firing", "pending"}}

DedupReplicaLabelSets == {{}, {"replica"}, {"b", "replica"}}

InitDedupRules ==
    /\ NoRulesCall
    /\ \E rs \in SeqsUpTo(DedupRuleSet, DedupMaxRules), L \in DedupReplicaLabelSets :
        fn = [name |-> "dedupRules", rules |-> rs, replicaLabels |-> L,
              calls |-> 0, prev |-> <<>>, out |-> <<>>, seenRules |-> NoSeen]

ApplyDedupRules ==
    /\ fn.name = "dedupRules"
    /\ fn.calls < DedupCalls
    /\ fn' = [fn EXCEPT !.calls = @ + 1,
                        !.prev = fn.out,
                        !.out = dedupRules(IF fn.calls = 0 THEN fn.rules ELSE fn.out,
                                           fn.replicaLabels),
                        !.seenRules =
                            IF fn.calls = 0 /\ Len(fn.rules) > 0
                            THEN dedupRulesWalk(fn.rules, fn.replicaLabels).seenRules
                            ELSE fn.seenRules]
    /\ UNCHANGED machineVars

SpecDedupRules == InitDedupRules /\ [][ApplyDedupRules]_vars

-----------------------------------------------------------------------------
\* Claims about dedupRules (SpecDedupRules).

SameExceptReplicaValues(r1, r2, L) ==
    /\ r1.type = r2.type
    /\ r1.name = r2.name
    /\ r1.state = r2.state
    /\ Len(r1.labels) = Len(r2.labels)
    /\ \A k \in 1..Len(r1.labels) :
        /\ r1.labels[k].Name = r2.labels[k].Name
        /\ r1.labels[k].Name \notin L => r1.labels[k].Value = r2.labels[k].Value

Occurrences(seq, x) == Cardinality({k \in 1..Len(seq) : seq[k] = x})

DifferOnReplica(r1, r2, L) ==
    /\ SameExceptReplicaValues(r1, r2, L)
    /\ r1 # r2

\* C1: of two rules of one variant that are identical except for the values
\* of replica labels, dedupRules returns exactly one: the later one is dropped.
C1_DuplicateDropped ==
    (fn.name = "dedupRules" /\ fn.calls = 1) =>
        \A i, j \in 1..Len(fn.rules) :
            (i < j /\ SameExceptReplicaValues(fn.rules[i], fn.rules[j], fn.replicaLabels))
                => Occurrences(fn.out, normalizeRule(fn.rules[i], fn.replicaLabels)) = 1

\* C8: dedupRules is idempotent for a fixed set of replica labels: applied to
\* its own result it returns that result, same rules, same labels, same order.
C8_DedupRulesIdempotent ==
    (fn.name = "dedupRules" /\ fn.calls = 2) => fn.out = fn.prev

C8_Witness ==
    /\ fn.name = "dedupRules"
    /\ fn.calls = 2
    /\ fn.replicaLabels = {"b", "replica"}
    /\ Len(fn.rules) = 3
    /\ DifferOnReplica(fn.rules[1], fn.rules[3], fn.replicaLabels)
    /\ fn.out # fn.rules

-----------------------------------------------------------------------------
\* Claims about dedupGroups (SpecDedupGroups).

FirstOfName(groups, i) == \A j \in 1..(i - 1) : groups[j].Name # groups[i].Name

\* The positions at which a name occurs for the first time, in order.
RECURSIVE FirstPositions(_, _)
FirstPositions(groups, i) ==
    IF i > Len(groups) THEN <<>>
    ELSE (IF FirstOfName(groups, i) THEN <<i>> ELSE <<>>) \o FirstPositions(groups, i + 1)

\* The rules of all groups of one name, concatenated in delivery order.
RECURSIVE RulesOfName(_, _, _)
RulesOfName(groups, i, name) ==
    IF i > Len(groups) THEN <<>>
    ELSE (IF groups[i].Name = name THEN groups[i].Rules ELSE <<>>)
            \o RulesOfName(groups, i + 1, name)

\* C2: dedupGroups returns one group per distinct name, in the order of the
\* names' first occurrences, each holding the concatenation, in delivery
\* order, of the rules of all input groups of that name.
C2_GroupsMergedByName ==
    (fn.name = "dedupGroups" /\ fn.done) =>
        LET first == FirstPositions(fn.groups, 1)
        IN  /\ Len(fn.out) = Len(first)
            /\ \A k \in 1..Len(first) :
                /\ fn.out[k].Name = fn.groups[first[k]].Name
                /\ fn.out[k].Rules = RulesOfName(fn.groups, 1, fn.out[k].Name)

C2_Witness ==
    /\ fn.name = "dedupGroups"
    /\ fn.done
    /\ Len(fn.groups) = 3
    /\ fn.groups[1].Name = "g2"
    /\ fn.groups[2].Name = "g1"
    /\ fn.groups[3].Name = "g2"
    /\ Len(fn.groups[1].Rules) = 1
    /\ Len(fn.groups[3].Rules) = 2
    /\ fn.groups[3].Rules[1] # fn.groups[3].Rules[2]
    /\ Len(fn.out) = 2
    /\ Len(fn.out[1].Rules) = 3

-----------------------------------------------------------------------------
\* Claims about filterRules on group lists (SpecFilter).

FilterDone == fn.name = "filterRules" /\ fn.done

\* s is a subsequence of t.
RECURSIVE IsSubseq(_, _)
IsSubseq(s, t) ==
    IF Len(s) = 0 THEN TRUE
    ELSE IF Len(t) = 0 THEN FALSE
    ELSE IF Head(s) = Head(t) THEN IsSubseq(Tail(s), Tail(t))
    ELSE IsSubseq(s, Tail(t))

Increasing(f, n) == \A i, j \in 1..n : i < j => f[i] < f[j]

\* Every group of out comes from a group of in, in order, with a subsequence
\* of that group's rules.
GroupsContained(out, in) ==
    \E f \in [1..Len(out) -> 1..Len(in)] :
        /\ Increasing(f, Len(out))
        /\ \A k \in 1..Len(out) :
            /\ out[k].Name = in[f[k]].Name
            /\ IsSubseq(out[k].Rules, in[f[k]].Rules)

RECURSIVE RuleCount(_)
RuleCount(groups) ==
    IF Len(groups) = 0 THEN 0 ELSE Len(Head(groups).Rules) + RuleCount(Tail(groups))

\* C5: with no matcher sets filterRules is the identity: the same groups in
\* the same order with the same rules, groups without rules included.
C5_NoMatcherSetsIdentity ==
    (FilterDone /\ Len(fn.matcherSets) = 0) => fn.out = fn.ruleGroups

C5_Witness ==
    /\ FilterDone
    /\ Len(fn.matcherSets) = 0
    /\ Len(fn.ruleGroups) = 2
    /\ Len(fn.ruleGroups[1].Rules) = 0
    /\ Len(fn.ruleGroups[2].Rules) = 2
    /\ Len(fn.out) = 2

\* C6: the output of filterRules is contained in its input: the groups are a
\* subsequence of the input groups, each with a subsequence of its rules, the
\* rules unmodified, and the number of rules does not grow.
C6_OutputContainedInInput ==
    FilterDone =>
        /\ GroupsContained(fn.out, fn.ruleGroups)
        /\ RuleCount(fn.out) <= RuleCount(fn.ruleGroups)

C6_Witness ==
    /\ FilterDone
    /\ Len(fn.matcherSets) = 2
    /\ Len(fn.ruleGroups) = 2
    /\ Len(fn.ruleGroups[1].Rules) = 2
    /\ Len(fn.ruleGroups[2].Rules) = 2
    /\ Len(fn.out) = 1
    /\ Len(fn.out[1].Rules) = 1
    /\ fn.out[1].Rules[1] = fn.ruleGroups[2].Rules[2]
    /\ fn.ruleGroups[2].Rules[1] # fn.ruleGroups[2].Rules[2]

\* The positions of the groups that keep at least one rule, in order.
RECURSIVE KeptPositions(_, _, _)
KeptPositions(groups, i, ms) ==
    IF i > Len(groups) THEN <<>>
    ELSE (IF \E j \in 1..Len(groups[i].Rules) : matches(ms, groups[i].Rules[j].labels)
          THEN <<i>> ELSE <<>>) \o KeptPositions(groups, i + 1, ms)

\* C7: with matcher sets given, a group none of whose rules is retained is
\* not in the output, every group with a retained rule is, and the surviving
\* groups keep their relative order.
C7_EmptyGroupsDropped ==
    (FilterDone /\ Len(fn.matcherSets) > 0) =>
        LET kept == KeptPositions(fn.ruleGroups, 1, fn.matcherSets)
        IN  /\ Len(fn.out) = Len(kept)
            /\ \A k \in 1..Len(kept) :
                /\ fn.out[k].Name = fn.ruleGroups[kept[k]].Name
                /\ Len(fn.out[k].Rules) > 0
                /\ IsSubseq(fn.out[k].Rules, fn.ruleGroups[kept[k]].Rules)

C7_Witness ==
    /\ FilterDone
    /\ Len(fn.matcherSets) > 0
    /\ Len(fn.ruleGroups) = 2
    /\ Len(fn.ruleGroups[1].Rules) = 2
    /\ fn.ruleGroups[1].Name # fn.ruleGroups[2].Name
    /\ Len(fn.out) = 1
    /\ fn.out[1].Name = fn.ruleGroups[2].Name

-----------------------------------------------------------------------------
\* Claims about the filtering decision for one rule (SpecFilterOne).

TheLabels == fn.ruleGroups[1].Rules[1].labels

Retained(out) == Len(out) = 1 /\ Len(out[1].Rules) = 1

\* The decision filterRules takes for a rule with labels l.
Decision(l, ms) ==
    Retained(filterRules(<<RuleGroup("g1", <<Rule("alert", "Up", l, "firing")>>)>>, ms))

\* A literal value parses to a single text node.
IsLiteralValue(v) == ~TemplateParseError(v) /\ TemplateNodes(v) = <<"NodeText">>

\* A templated value holds a template directive.
IsTemplatedValue(v) ==
    /\ ~TemplateParseError(v)
    /\ \E k \in 1..Len(TemplateNodes(v)) : TemplateNodes(v)[k] # "NodeText"

LiteralLabels(l) == SelectSeq(l, LAMBDA x : IsLiteralValue(x.Value))

SatisfiesEveryMatcher(ms, l) ==
    \A i \in 1..Len(ms) : \A j \in 1..Len(ms[i]) :
        MatcherMatches(ms[i][j], LabelsGet(LiteralLabels(l), ms[i][j].Name))

\* C3: with matcher sets given, filterRules retains a rule exactly when its
\* literal labels satisfy every matcher of every set, a label that is not
\* among the literal labels counting as the empty string.
C3_RetainedIffLiteralLabelsMatch ==
    (FilterDone /\ Len(fn.matcherSets) > 0) =>
        (Retained(fn.out) <=> SatisfiesEveryMatcher(fn.matcherSets, TheLabels))

WithValue(l, k, v) == [l EXCEPT ![k].Value = v]

WithoutLabel(l, k) == SubSeq(l, 1, k - 1) \o SubSeq(l, k + 1, Len(l))

TemplatedValues == {v \in FilterLabelValues : IsTemplatedValue(v)}

\* The decision for a rule is the same for every templated value of a label.
SameForEveryTemplatedValue ==
    \A k \in 1..Len(TheLabels) :
        IsTemplatedValue(TheLabels[k].Value) =>
            \A v \in TemplatedValues :
                Decision(WithValue(TheLabels, k, v), fn.matcherSets) = Retained(fn.out)

\* The decision for a rule is the one taken with its templated label removed.
SameWithoutTemplatedLabel ==
    \A k \in 1..Len(TheLabels) :
        IsTemplatedValue(TheLabels[k].Value) =>
            Decision(WithoutLabel(TheLabels, k), fn.matcherSets) = Retained(fn.out)

\* C4: the decision for a rule does not depend on the value of a templated
\* label: two rules that differ in such a value only are both retained or
\* both dropped, and the decision is the one taken with that label removed.
C4_TemplatedValueIgnored ==
    FilterDone => (SameForEveryTemplatedValue /\ SameWithoutTemplatedLabel)

-----------------------------------------------------------------------------
\* Claims about the Rules call (Spec).

\* C9: when a selector of the request fails to parse, Rules returns an error
\* and neither groups nor warnings, whatever the sink has accumulated.
C9_MalformedSelectorNoPartialResult ==
    (pc = "done" /\ HasMalformed(req)) =>
        /\ ret.returned
        /\ ret.err # NoErr
        /\ ~ret.hasGroups
        /\ ret.groups = <<>>
        /\ ret.warnings = <<>>

C9_Witness ==
    /\ pc = "done"
    /\ HasMalformed(req)
    /\ ret.err = "parser ParseMetricSelector"
    /\ Len(srv.groups) > 0
    /\ Len(srv.warnings) > 0

\* C10: the selectors are compiled before the fan-out collaborator is
\* invoked, so a request with a malformed selector fails without the
\* collaborator being invoked and without a message reaching the sink.
C10_SelectorsCompiledBeforeFanOut ==
    /\ pc = "proxy" => compiled.done
    /\ HasMalformed(req) =>
        /\ pc # "proxy"
        /\ Deliveries = 0

-----------------------------------------------------------------------------
\* The sink during and after the fan-out.

Range(f) == {f[i] : i \in DOMAIN f}

BagOfSeq(f) == [x \in Range(f) |-> Cardinality({i \in DOMAIN f : f[i] = x})]

\* The warnings and the groups among the accepted messages, in the order in
\* which their Send calls took the mutex.
ArrivedWarnings ==
    LET ws == SelectSeq(arrived, LAMBDA a : a.msg.warning # "")
    IN  [i \in 1..Len(ws) |-> ws[i].msg.warning]

ArrivedGroups ==
    LET gs == SelectSeq(arrived, LAMBDA a : a.msg.warning = "")
    IN  [i \in 1..Len(gs) |-> gs[i].msg.group]

\* C11: when the fan-out collaborator returns an error, Rules returns an error
\* wrapping it and neither groups nor warnings, whatever the sink has
\* accumulated, and the accumulated groups are not filtered, merged or
\* deduplicated: no selector is compiled and the sink is left as delivered.
C11_ProxyErrorNoPartialResult ==
    (pc = "done" /\ proxyResult # NoErr) =>
        /\ ret.returned
        /\ ret.err = "proxy Rules"
        /\ ret.cause = proxyResult
        /\ ~ret.hasGroups
        /\ ret.groups = <<>>
        /\ ret.warnings = <<>>
        /\ ~compiled.done
        /\ srv.groups = ArrivedGroups
        /\ srv.warnings = ArrivedWarnings

C11_Witness ==
    /\ pc = "done"
    /\ proxyResult = "unavailable"
    /\ ret.err = "proxy Rules"
    /\ Len(srv.groups) > 1
    /\ srv.groups[1].Name = srv.groups[2].Name
    /\ Len(srv.warnings) > 0

\* C12: when the fan-out collaborator returns success, Rules returns without
\* error exactly the delivered warnings, one per warning message, in arrival
\* order and with repeats, whatever the selectors are.
C12_WarningsReturned ==
    (pc = "done" /\ proxyResult = NoErr) =>
        /\ ret.err = NoErr
        /\ ret.warnings = ArrivedWarnings

\* C13: once the context is canceled while Rules waits for the fan-out
\* collaborator, Rules can return without waiting for the collaborator or for
\* the producers in flight, and what it returns is the context's error.
C13_CancellationAborts ==
    /\ (pc = "proxy" /\ ctx = "canceled") => ENABLED RulesReturn
    /\ (pc = "done" /\ ctx = "canceled") =>
            /\ ret.err # NoErr
            /\ ret.cause = "context canceled"

\* C14: Send rejects every group message whose group carries no rule, so no
\* such message is accepted and no group without rules is in the accumulated
\* groups.
C14_ZeroRuleGroupRejected ==
    /\ \A m \in BagToSet(sent) :
            (m.warning = "" /\ m.hasGroup) => Len(m.group.Rules) > 0
    /\ pc = "proxy" => \A i \in 1..Len(srv.groups) : Len(srv.groups[i].Rules) > 0

\* C15: a delivery made once the context is done leaves the accumulated groups
\* and warnings as they were: the sink holds the deliveries made before the
\* context was done and nothing else.
C15_LateDeliveryIgnored ==
    (pc = "proxy" /\ InFlight = {}) =>
        LET early == SelectSeq(arrived, LAMBDA a : ~a.late)
            ws == SelectSeq(early, LAMBDA a : a.msg.warning # "")
            gs == SelectSeq(early, LAMBDA a : a.msg.warning = "")
        IN  /\ srv.warnings = [i \in 1..Len(ws) |-> ws[i].msg.warning]
            /\ srv.groups = [i \in 1..Len(gs) |-> gs[i].msg.group]

\* The accumulated groups and warnings as a bag of messages, and the messages
\* of the Send calls that have not stored their append yet.
SinkBag ==
    BagOfSeq([i \in 1..Len(srv.groups) |-> GroupMessage(srv.groups[i])])
        (+) BagOfSeq([i \in 1..Len(srv.warnings) |-> WarningMessage(srv.warnings[i])])

InFlightBag ==
    [m \in {prod[p].msg : p \in InFlight} |->
        Cardinality({p \in InFlight : prod[p].msg = m})]

\* C16: with producers delivering concurrently every accepted delivery is
\* appended exactly once: the accumulated groups and warnings together with the
\* deliveries still in flight are the bag of accepted messages (so they are
\* that bag once the producers have finished), and a producer between Lock and
\* Unlock, where the append happens, is the one holding the mutex.
C16_EachDeliveryAppendedOnce ==
    /\ \A p \in Producers : prod[p].pc \in {"locked", "append"} => mu = p
    /\ pc = "proxy" => SinkBag (+) InFlightBag = sent

C16_Witness ==
    /\ pc = "proxy"
    /\ \E p, q \in Producers :
        /\ prod[p].pc = "append"
        /\ prod[q].pc = "lock"
        /\ prod[p].msg = prod[q].msg
        /\ BagToSet(SinkBag) = {prod[p].msg}

-----------------------------------------------------------------------------
\* Strings of the query admission code: a query and a pattern are sequences
\* of characters.  regexp.Compile and Regexp.MatchString on the patterns made
\* of literals, ".", "*", "+", "^" and "$"; a "[" that is never closed does not
\* compile.

RegexpCompileError(pattern) == \E i \in 1..Len(pattern) : pattern[i] = "["

RECURSIVE RegexpMatchFrom(_, _, _, _)
\* pattern[i..] matches a prefix of s[j..]
RegexpMatchFrom(pattern, i, s, j) ==
    IF i > Len(pattern) THEN TRUE
    ELSE IF pattern[i] = "^" THEN j = 1 /\ RegexpMatchFrom(pattern, i + 1, s, j)
    ELSE IF pattern[i] = "$" THEN j = Len(s) + 1 /\ RegexpMatchFrom(pattern, i + 1, s, j)
    ELSE LET atom(k) == k <= Len(s) /\ (pattern[i] = "." \/ pattern[i] = s[k])
             quantified == i < Len(pattern) /\ pattern[i + 1] \in {"*", "+"}
             least == IF quantified /\ pattern[i + 1] = "+" THEN 1 ELSE 0
         IN  IF quantified
             THEN \E n \in least..(Len(s) - j + 1) :
                    /\ \A k \in j..(j + n - 1) : atom(k)
                    /\ RegexpMatchFrom(pattern, i + 2, s, j + n)
             ELSE atom(j) /\ RegexpMatchFrom(pattern, i + 1, s, j + 1)

\* re.MatchString(s): the pattern matches somewhere in s.
RegexpMatchString(pattern, s) ==
    \E j \in 1..(Len(s) + 1) : RegexpMatchFrom(pattern, 1, s, j)

\* strings.Contains(s, substr)
StringsContains(s, substr) ==
    \E j \in 0..(Len(s) - Len(substr)) :
        \A k \in 1..Len(substr) : s[j + k] = substr[k]

RECURSIVE ReplaceStars(_, _)
\* strings.ReplaceAll(pattern, "*", ".*")
ReplaceStars(pattern, i) ==
    IF i > Len(pattern) THEN <<>>
    ELSE (IF pattern[i] = "*" THEN <<".", "*">> ELSE <<pattern[i]>>)
            \o ReplaceStars(pattern, i + 1)

-----------------------------------------------------------------------------
\* package tripperware: QueryAttributeMatcher.Match and the query rejection
\* middleware.

\* time.Time: the zero Time, or a Time of whole seconds since the epoch.
ZeroTime == [isZero |-> TRUE, sec |-> 0]

TimeUnix(sec) == [isZero |-> FALSE, sec |-> sec]

Before(t, u) == IF t.isZero THEN ~u.isZero ELSE ~u.isZero /\ t.sec < u.sec

After(t, u) == Before(u, t)

tripperwareMatchQueryPattern(query, pattern) ==
    IF \E i \in 1..Len(pattern) : pattern[i] = "*"
    THEN LET regexPattern == <<"^">> \o ReplaceStars(pattern, 1) \o <<"$">>
         IN  IF RegexpCompileError(regexPattern) THEN FALSE
             ELSE RegexpMatchString(regexPattern, query)
    ELSE StringsContains(query, pattern)

TripperwareMatcher(patterns, start, end) ==
    [QueryPatterns |-> patterns, TimeWindow |-> [Start |-> start, End |-> end]]

PrometheusRequest(query, start, end) == [Query |-> query, Start |-> start, End |-> end]

\* int64 division by a positive number truncates; the times here are >= 0.
MillisPerSecond == 1000

\* Match as written: every path past the pattern check returns true.
tripperwareMatch(qam, request) ==
    IF /\ Len(qam.QueryPatterns) > 0
       /\ ~\E i \in 1..Len(qam.QueryPatterns) :
                tripperwareMatchQueryPattern(request.Query, qam.QueryPatterns[i])
    THEN FALSE
    ELSE IF ~qam.TimeWindow.Start.isZero \/ ~qam.TimeWindow.End.isZero
    THEN LET reqStart == TimeUnix(request.Start \div MillisPerSecond)
             reqEnd == TimeUnix(request.End \div MillisPerSecond)
         IN  IF ~qam.TimeWindow.Start.isZero /\ ~qam.TimeWindow.End.isZero
             THEN IF Before(reqStart, qam.TimeWindow.End)
                        /\ After(reqEnd, qam.TimeWindow.Start)
                  THEN TRUE ELSE TRUE
             ELSE IF ~qam.TimeWindow.Start.isZero
             THEN IF Before(reqStart, qam.TimeWindow.Start) THEN TRUE ELSE TRUE
             ELSE IF After(reqEnd, qam.TimeWindow.End) THEN TRUE ELSE TRUE
    ELSE TRUE

\* queryRejectionMiddleware.Do: the result of the call, whether the next
\* handler was invoked and whether the rejection counter was incremented.
NilResponse == "nil"

BadRequest(query) ==
    [code |-> "StatusBadRequest",
     msg |-> <<"query rejected: query '", query, "' matches blocked pattern">>]

RECURSIVE DoLoopFirstOnly(_, _, _, _)
\* A walk that stops after the first blocked query.
DoLoopFirstOnly(blockedQueries, i, request, next) ==
    IF i > Len(blockedQueries) \/ i > 1
    THEN [resp |-> next.resp, err |-> next.err, nextCalls |-> 1, rejected |-> 0]
    ELSE IF tripperwareMatch(blockedQueries[i], request)
    THEN [resp |-> NilResponse, err |-> BadRequest(request.Query),
          nextCalls |-> 0, rejected |-> 1]
    ELSE DoLoopFirstOnly(blockedQueries, i + 1, request, next)

RECURSIVE DoLoop(_, _, _, _)
DoLoop(blockedQueries, i, request, next) ==
    IF i > Len(blockedQueries)
    THEN [resp |-> next.resp, err |-> next.err, nextCalls |-> 1, rejected |-> 0]
    ELSE IF tripperwareMatch(blockedQueries[i], request)
    THEN [resp |-> NilResponse, err |-> BadRequest(request.Query),
          nextCalls |-> 0, rejected |-> 1]
    ELSE DoLoop(blockedQueries, i + 1, request, next)

Do(config, request, next) == DoLoop(config.BlockedQueries, 1, request, next)

Chars == {"a", "b"}

Queries == SeqsUpTo(Chars, QueryMaxLen)

TripperwarePatternLists == {<<>>, <<<<"a", "b">>>>, <<<<"b", "*">>, <<"a", "a">>>>}

TripperwareWindows ==
    {[Start |-> ZeroTime, End |-> ZeroTime],
     [Start |-> TimeUnix(2), End |-> TimeUnix(4)],
     [Start |-> TimeUnix(2), End |-> ZeroTime],
     [Start |-> ZeroTime, End |-> TimeUnix(4)]}

TripperwareMatchers ==
    {TripperwareMatcher(ps, w.Start, w.End) :
        ps \in TripperwarePatternLists, w \in TripperwareWindows}

TripperwareTimes == {1000, 2500, 3000, 5500}

TripperwareRequests ==
    {PrometheusRequest(q, t[1], t[2]) :
        q \in Queries,
        t \in {u \in TripperwareTimes \X TripperwareTimes : u[1] <= u[2]}}

\* What the next handler answers: a response, or an error.
NextOutcomes ==
    {[resp |-> "success", err |-> NoErr], [resp |-> NilResponse, err |-> "next failed"]}

\* The blocked queries and the requests of the middleware: a part of the
\* matchers and of the requests above.
BlockedQueryMatchers ==
    {m \in TripperwareMatchers : m.TimeWindow.Start.isZero = m.TimeWindow.End.isZero}

DoRequests == {r \in TripperwareRequests : r.Start = 2500 /\ r.End # 3000}

NoDo == [done |-> FALSE]

InitDo ==
    /\ NoRulesCall
    /\ \E bq \in SeqsUpTo(BlockedQueryMatchers, MaxBlocked) :
        fn = [name |-> "Do", config |-> [BlockedQueries |-> bq], calls |-> 0,
              rejectedQueries |-> 0, nextCalls |-> 0, last |-> NoDo]

\* One request goes through the middleware.
DoCall ==
    /\ fn.name = "Do"
    /\ fn.calls < DoCalls
    /\ \E request \in DoRequests, next \in NextOutcomes :
        LET r == Do(fn.config, request, next)
        IN  fn' = [fn EXCEPT !.calls = @ + 1,
                             !.rejectedQueries = @ + r.rejected,
                             !.nextCalls = @ + r.nextCalls,
                             !.last = [done |-> TRUE, req |-> request, next |-> next,
                                       resp |-> r.resp, err |-> r.err,
                                       nextCalls |-> r.nextCalls]]
    /\ UNCHANGED machineVars

SpecDo == InitDo /\ [][DoCall]_vars

BlockedBy(config, request) ==
    {i \in 1..Len(config.BlockedQueries) :
        tripperwareMatch(config.BlockedQueries[i], request)}

\* C17: when some blocked-query matcher matches the request, Do returns a nil
\* response and the bad-request error "query '...' matches blocked pattern"
\* and the next handler is not invoked; when none matches, the next handler is
\* invoked exactly once and its response and error are returned unchanged.
C17_RejectsOrForwards ==
    (fn.name = "Do" /\ fn.calls > 0) =>
        IF BlockedBy(fn.config, fn.last.req) # {}
        THEN /\ fn.last.resp = NilResponse
             /\ fn.last.err = BadRequest(fn.last.req.Query)
             /\ fn.last.nextCalls = 0
        ELSE /\ fn.last.nextCalls = 1
             /\ fn.last.resp = fn.last.next.resp
             /\ fn.last.err = fn.last.next.err

C17_Witness ==
    /\ fn.name = "Do"
    /\ fn.calls = 2
    /\ BlockedBy(fn.config, fn.last.req) = {2}
    /\ fn.last.resp = NilResponse
    /\ fn.nextCalls = 1
    /\ fn.rejectedQueries = 1

-----------------------------------------------------------------------------
\* package queryfrontend: QueryAttributeMatcher.Match.  Times and durations
\* are in milliseconds.

Minute == 60000

Abs(d) == IF d < 0 THEN 0 - d ELSE d

\* Time.Truncate(d) of a time at or after the epoch.
Truncate(t, d) == t - (t % d)

\* The request's type as Match sees it.
getReqType(request) == request.type

\* GetStart / GetEnd: an instant request has neither.
GetStart(request) == IF request.type = "instant" THEN 0 ELSE request.Start

GetEnd(request) == IF request.type = "instant" THEN 0 ELSE request.End

matchQueryPattern(query, pattern) ==
    IF pattern = <<".", "*">> \/ pattern = <<".", "+">> THEN TRUE
    ELSE IF RegexpCompileError(pattern) THEN FALSE
    ELSE RegexpMatchString(pattern, query)

matchesTimeWindow(timeWindow, request, now) ==
    IF timeWindow.Start = 0 /\ timeWindow.End = 0 THEN TRUE
    ELSE LET reqStart == IF request.type = "instant" THEN request.Time
                         ELSE GetStart(request)
             reqEnd == IF request.type = "instant" THEN request.Time
                       ELSE GetEnd(request)
             startTimeThreshold ==
                 Truncate(now - Abs(timeWindow.Start) - Minute, Minute)
             endTimeThreshold ==
                 Truncate(now - Abs(timeWindow.End) + Minute, Minute)
         IN  IF timeWindow.Start # 0 /\ (reqStart = 0 \/ reqStart < startTimeThreshold)
             THEN FALSE
             ELSE IF timeWindow.End # 0 /\ (reqEnd = 0 \/ reqEnd > endTimeThreshold)
             THEN FALSE
             ELSE TRUE

matchesTimeRangeLimits(timeRange, request) ==
    IF timeRange.Min = 0 /\ timeRange.Max = 0 THEN TRUE
    ELSE LET startTime == GetStart(request)
             endTime == GetEnd(request)
             duration == endTime - startTime
         IN  IF startTime = 0 \/ endTime = 0 THEN FALSE
             ELSE IF timeRange.Min # 0 /\ duration < timeRange.Min THEN FALSE
             ELSE IF timeRange.Max # 0 /\ duration > timeRange.Max THEN FALSE
             ELSE TRUE

isWithinQueryStepLimit(limit, step) ==
    IF limit.Min = 0 /\ limit.Max = 0 THEN TRUE
    ELSE IF limit.Min # 0 /\ step < limit.Min THEN FALSE
    ELSE IF limit.Max # 0 /\ step > limit.Max THEN FALSE
    ELSE TRUE

\* strings.ToLower on the header names of the model.
ToLower(name) ==
    CASE name = "X-Dashboard-Uid" -> "x-dashboard-uid"
      [] name = "X-Panel-Id" -> "x-panel-id"
      [] OTHER -> name

isMatchHeader(headers, lowerName, wanted) ==
    \E i \in 1..Len(headers) :
        /\ ToLower(headers[i].Name) = lowerName
        /\ \E j \in 1..Len(headers[i].Values) :
                wanted # "" /\ headers[i].Values[j] = wanted

isMatchDashboardId(headers, dashboardUID) ==
    isMatchHeader(headers, "x-dashboard-uid", dashboardUID)

isMatchPanelId(headers, panelID) == isMatchHeader(headers, "x-panel-id", panelID)

\* The loop over QueryPatterns: some pattern matches the query.
MatchesSomePattern(qam, request) ==
    \E i \in 1..Len(qam.QueryPatterns) :
        matchQueryPattern(request.Query, qam.QueryPatterns[i])

matchAttributesForExpressionQuery(request, qam, now) ==
    IF qam.ApiType # "" /\ getReqType(request) # qam.ApiType THEN FALSE
    ELSE IF Len(qam.QueryPatterns) > 0 /\ ~MatchesSomePattern(qam, request) THEN FALSE
    ELSE IF ~matchesTimeWindow(qam.TimeWindow, request, now) THEN FALSE
    ELSE IF ~matchesTimeRangeLimits(qam.TimeRange, request) THEN FALSE
    ELSE IF /\ getReqType(request) = "range"
            /\ ~isWithinQueryStepLimit(qam.QueryStepLimit, request.Step)
    THEN FALSE
    ELSE IF /\ qam.DashboardUID # ""
            /\ ~isMatchDashboardId(request.Headers, qam.DashboardUID)
    THEN FALSE
    ELSE IF qam.PanelID # "" /\ ~isMatchPanelId(request.Headers, qam.PanelID) THEN FALSE
    ELSE IF qam.UserAgent # "" THEN FALSE
    ELSE TRUE

matchAttributesForMetadataQuery(request, qam) ==
    IF qam.ApiType # "" /\ getReqType(request) # qam.ApiType THEN FALSE
    ELSE IF Len(qam.QueryPatterns) > 0 /\ ~MatchesSomePattern(qam, request) THEN FALSE
    ELSE TRUE

Match(qam, request, now) ==
    LET op == getReqType(request)
    IN  IF op \in {"range", "instant"} /\ matchAttributesForExpressionQuery(request, qam, now)
        THEN TRUE
        ELSE IF op \in {"labels", "series"} /\ matchAttributesForMetadataQuery(request, qam)
        THEN TRUE
        ELSE FALSE

\* Matchers, requests and clock readings the two Match functions are applied to.
NoLimit == [Min |-> 0, Max |-> 0]

NoWindow == [Start |-> 0, End |-> 0]

QueryfrontendMatcher(patterns, window) ==
    [QueryPatterns |-> patterns, ApiType |-> "", TimeWindow |-> window,
     TimeRange |-> NoLimit, QueryStepLimit |-> NoLimit, UserAgent |-> "",
     DashboardUID |-> "", PanelID |-> ""]

PatternUniverse ==
    {<<".", "*">>, <<".", "+">>, <<"[", "a">>, <<"a">>, <<"^", "b", "$">>,
     <<"a", "+", "b">>}

OnlyPatterns ==
    {QueryfrontendMatcher(ps, NoWindow) :
        ps \in SeqsUpTo(PatternUniverse, MaxPatterns) \ {<<>>}}

OnlyTimeWindow ==
    {QueryfrontendMatcher(<<>>, [Start |-> st, End |-> en]) :
        st \in {0, 4 * Minute, 6 * Minute}, en \in {0, 2 * Minute}} \
    {QueryfrontendMatcher(<<>>, NoWindow)}

OtherMatchers ==
    {QueryfrontendMatcher(<<>>, NoWindow),
     [QueryfrontendMatcher(<<>>, NoWindow) EXCEPT !.ApiType = "instant"],
     [QueryfrontendMatcher(<<<<"a">>>>, NoWindow) EXCEPT !.UserAgent = "curl"],
     [QueryfrontendMatcher(<<>>, NoWindow) EXCEPT
        !.TimeRange = [Min |-> Minute, Max |-> 2 * Minute]],
     [QueryfrontendMatcher(<<>>, NoWindow) EXCEPT
        !.QueryStepLimit = [Min |-> 0, Max |-> Minute]],
     [QueryfrontendMatcher(<<>>, NoWindow) EXCEPT !.DashboardUID = "d1"],
     [QueryfrontendMatcher(<<>>, NoWindow) EXCEPT !.PanelID = "p1"]}

QueryfrontendMatchers == OnlyPatterns \cup OnlyTimeWindow \cup OtherMatchers

RequestTypes == {"range", "instant", "labels", "series"}

RequestTimes ==
    {0, 3 * Minute, 5 * Minute, 7 * Minute, 8 * Minute + Minute \div 2, 10 * Minute}

HeaderLists ==
    {<<>>,
     <<[Name |-> "X-Dashboard-Uid", Values |-> <<"d1">>],
       [Name |-> "x-panel-id", Values |-> <<"p2">>]>>}

\* A request of one of the four Thanos types; Time is the evaluation time of
\* an instant request.
QueryfrontendRequests ==
    {[type |-> ty, Query |-> q, Start |-> t[1], End |-> t[2], Time |-> t[2],
      Step |-> st, Headers |-> h] :
        ty \in RequestTypes, q \in Queries,
        t \in {u \in RequestTimes \X RequestTimes :
                    u[1] <= u[2] /\ u[2] - u[1] <= 2 * Minute},
        st \in {Minute \div 2, 2 * Minute}, h \in HeaderLists}

\* time.Now()
Clock == {10 * Minute, 10 * Minute + Minute \div 2}

InitMatch ==
    /\ NoRulesCall
    /\ \/ \E qam \in QueryfrontendMatchers, request \in QueryfrontendRequests,
             now \in Clock :
            fn = [name |-> "Match", pkg |-> "queryfrontend", qam |-> qam,
                  req |-> request, now |-> now, done |-> FALSE, result |-> FALSE]
       \/ \E qam \in TripperwareMatchers, request \in TripperwareRequests :
            fn = [name |-> "Match", pkg |-> "tripperware", qam |-> qam,
                  req |-> request, now |-> 0, done |-> FALSE, result |-> FALSE]

QueryfrontendMatch ==
    /\ fn.name = "Match"
    /\ fn.pkg = "queryfrontend"
    /\ ~fn.done
    /\ fn' = [fn EXCEPT !.done = TRUE, !.result = Match(fn.qam, fn.req, fn.now)]
    /\ UNCHANGED machineVars

TripperwareMatch ==
    /\ fn.name = "Match"
    /\ fn.pkg = "tripperware"
    /\ ~fn.done
    /\ fn' = [fn EXCEPT !.done = TRUE, !.result = tripperwareMatch(fn.qam, fn.req)]
    /\ UNCHANGED machineVars

SpecMatch == InitMatch /\ [][QueryfrontendMatch \/ TripperwareMatch]_vars

\* C18: for a range or instant request and a matcher with nothing but
\* QueryPatterns, Match is true exactly when one of the patterns is a valid
\* regular expression that matches the query.
C18_SomePatternMatches ==
    (/\ fn.name = "Match" /\ fn.pkg = "queryfrontend" /\ fn.done
     /\ fn.qam \in OnlyPatterns
     /\ fn.req.type \in {"range", "instant"}) =>
        (fn.result <=>
            \E i \in 1..Len(fn.qam.QueryPatterns) :
                /\ ~RegexpCompileError(fn.qam.QueryPatterns[i])
                /\ RegexpMatchString(fn.qam.QueryPatterns[i], fn.req.Query))

\* The bounds of the configured window and the request's time range, in
\* milliseconds; a bound that is not configured is absent.
WindowOf(f) ==
    IF f.pkg = "queryfrontend"
    THEN [hasStart |-> f.qam.TimeWindow.Start # 0,
          start |-> f.now - Abs(f.qam.TimeWindow.Start),
          hasEnd |-> f.qam.TimeWindow.End # 0,
          end |-> f.now - Abs(f.qam.TimeWindow.End)]
    ELSE [hasStart |-> ~f.qam.TimeWindow.Start.isZero,
          start |-> f.qam.TimeWindow.Start.sec * MillisPerSecond,
          hasEnd |-> ~f.qam.TimeWindow.End.isZero,
          end |-> f.qam.TimeWindow.End.sec * MillisPerSecond]

RangeOf(f) ==
    IF f.pkg = "queryfrontend" /\ f.req.type = "instant"
    THEN [start |-> f.req.Time, end |-> f.req.Time]
    ELSE [start |-> f.req.Start, end |-> f.req.End]

InsideWindow(f) ==
    /\ WindowOf(f).hasStart => RangeOf(f).start >= WindowOf(f).start
    /\ WindowOf(f).hasEnd => RangeOf(f).end <= WindowOf(f).end

OutsideWindow(f) ==
    \/ WindowOf(f).hasStart /\ RangeOf(f).end < WindowOf(f).start
    \/ WindowOf(f).hasEnd /\ RangeOf(f).start > WindowOf(f).end

OnlyWindowConfigured(f) ==
    IF f.pkg = "queryfrontend" THEN f.qam \in OnlyTimeWindow
    ELSE /\ f.qam.QueryPatterns = <<>>
         /\ ~(f.qam.TimeWindow.Start.isZero /\ f.qam.TimeWindow.End.isZero)

\* C19: for a matcher with nothing but a TimeWindow, in package queryfrontend
\* and in package tripperware, Match is true for a request whose start and end
\* lie inside the window and false for a request whose time range lies outside
\* the window (the request has a start and an end: neither is 0).
C19_TimeWindowDecides ==
    (/\ fn.name = "Match" /\ fn.done
     /\ OnlyWindowConfigured(fn)
     /\ fn.pkg = "queryfrontend" => fn.req.type \in {"range", "instant"}
     /\ RangeOf(fn).start # 0 /\ RangeOf(fn).end # 0) =>
        /\ InsideWindow(fn) => fn.result
        /\ OutsideWindow(fn) => ~fn.result

-----------------------------------------------------------------------------
\* dedupRules: the map of first-seen rules (SpecDedupRules).

\* The rules of the first dedupRules call as the loop sees them, and the
\* position of the first rule with the canonical string of rule j.
LoopRules == [i \in 1..Len(fn.rules) |-> normalizeRule(fn.rules[i], fn.replicaLabels)]

FirstWithString(lr, j) ==
    CHOOSE i \in 1..j :
        /\ RuleString(lr[i]) = RuleString(lr[j])
        /\ \A h \in 1..(i - 1) : RuleString(lr[h]) # RuleString(lr[j])

DiffersFromFirstSeen(lr, j) ==
    /\ FirstWithString(lr, j) < j
    /\ Compare(lr[FirstWithString(lr, j)], lr[j]) # 0

\* C20: a rule with the canonical string of an earlier rule that Compare
\* reports as different from the recorded first-seen rule is kept in the
\* output, and the rule recorded for that string stays the first-seen one.
C20_DifferentKeptFirstSeenStays ==
    LET lr == LoopRules IN
        (fn.name = "dedupRules" /\ fn.calls = 1) =>
            \A j \in 1..Len(lr) :
                DiffersFromFirstSeen(lr, j) =>
                    /\ Occurrences(fn.out, lr[j]) = Occurrences(lr, lr[j])
                    /\ fn.out[j] = lr[j]
                    /\ fn.seenRules[RuleString(lr[j])] = lr[FirstWithString(lr, j)]
                    /\ fn.seenRules[RuleString(lr[j])] # lr[j]

C20_Witness ==
    LET lr == LoopRules IN
        /\ fn.name = "dedupRules"
        /\ fn.calls = 1
        /\ Len(fn.rules) = 3
        /\ DiffersFromFirstSeen(lr, 2)
        /\ lr[3] = lr[1]
        /\ fn.replicaLabels # {}
        /\ fn.rules[1] # lr[1]
        /\ fn.seenRules[RuleString(lr[2])] = lr[1]
        /\ fn.out = lr

\* The positions of the rules that are the first of their canonical string.
FirstOfIdentity(lr) == {j \in 1..Len(lr) : FirstWithString(lr, j) = j}

\* The p-th smallest position of a set of positions.
NthOf(positions, p) ==
    CHOOSE j \in positions : Cardinality({h \in positions : h < j}) = p - 1

OtherLabels(r, L) == {r.labels[k] : k \in {h \in 1..Len(r.labels) : r.labels[h].Name \notin L}}

SortedByName(l) == \A k \in 1..(Len(l) - 1) : ~NameLess(l[k + 1].Name, l[k].Name)

\* C22: after dedupRules no rule carries a label whose name is a replica
\* label, the labels of every rule are sorted by name, and every rule of the
\* output is a rule of the input with exactly its other labels, each with the
\* value it had.
C22_ReplicaLabelsRemovedRestKept ==
    (fn.name = "dedupRules" /\ fn.calls >= 1) =>
        \A p \in 1..Len(fn.out) :
            /\ \A k \in 1..Len(fn.out[p].labels) :
                    fn.out[p].labels[k].Name \notin fn.replicaLabels
            /\ SortedByName(fn.out[p].labels)
            /\ \E j \in 1..Len(fn.rules) :
                /\ fn.out[p].type = fn.rules[j].type
                /\ fn.out[p].name = fn.rules[j].name
                /\ fn.out[p].state = fn.rules[j].state
                /\ OtherLabels(fn.out[p], {}) = OtherLabels(fn.rules[j], fn.replicaLabels)
                /\ Len(fn.out[p].labels) = Cardinality(OtherLabels(fn.rules[j], fn.replicaLabels))

C22_Witness ==
    /\ fn.name = "dedupRules"
    /\ fn.calls = 1
    /\ fn.replicaLabels = {"replica"}
    /\ \E p \in 1..Len(fn.rules) :
        /\ fn.rules[p].labels =
                <<Label("replica", "1"), Label("b", "y"), Label("a", "x")>>
        /\ fn.out[p].labels = <<Label("a", "x"), Label("b", "y")>>

====
